---- MODULE Spec2Model ----
(***************************************************************************)
(* Model of sensor_data_analyzer.py: a pipeline that loads a one-column    *)
(* text file with pandas, selects the readings above a threshold, writes   *)
(* a text report and renders a graph.                                      *)
(*                                                                         *)
(* Files on disk are records [exists, content].  A line of the input file  *)
(* is a record [k, n]: k is the lexical kind of the line as read_csv's     *)
(* type inference sees it ("int" such as 150, "float" such as 100.0,       *)
(* "nan" for a missing-value marker such as NaN, "text" such as abc,       *)
(* "blank" for an empty line) and n its numeric value (0 when it has       *)
(* none).  Numeric values are exact small numbers, so integers stand for   *)
(* them; NaN is a separate kind of cell.                                   *)
(***************************************************************************)
EXTENDS Integers, Sequences, FiniteSets, TLC

VARIABLES
    inputFile,      \* the file INPUT_FILENAME on disk
    reportFile,     \* the file REPORT_FILENAME on disk
    imageFile,      \* the file OUTPUT_IMAGE_FILENAME on disk
    now,            \* the wall clock
    threshold,      \* the threshold the functions are called with
    pc,             \* position of the running process in main
    data_df,        \* main's data_df
    result,         \* main's anomaly_count, detected_anomalies, anomalies_df
    current_time,   \* generate_text_report's current_time
    stderr,         \* diagnostics printed to sys.stderr by this process
    stages,         \* history: the stages this process has completed
    last,           \* history: the latest report a process generated
    repeat,         \* history: the latest writing run had the input of the one before
    agree           \* history: ... and produced the same result and report text

vars == <<inputFile, reportFile, imageFile, now, threshold, pc, data_df,
          result, current_time, stderr, stages, last, repeat, agree>>

----------------------------------------------------------------------------
(* Bounds *)

MaxLines == 2       \* lines of an input file, runs of main
MaxLen == 4         \* lines of an input file, single calls of the functions
MaxClock == 1       \* ticks of the wall clock

(* Configuration constants *)

THRESHOLD == 100
INPUT_FILENAME == "sensor_data.txt"

----------------------------------------------------------------------------
(* Input files *)

Line(k, n) == [k |-> k, n |-> n]

MainLines == {Line("int", 30), Line("int", 150), Line("text", 0)}

UnitLines == {Line("int", 10), Line("int", 30), Line("int", 150),
              Line("int", 200), Line("float", 100), Line("nan", 0),
              Line("text", 0), Line("blank", 0)}

Thresholds == {30, THRESHOLD, 150}

SeqsUpTo(S, n) == UNION {[1..m -> S] : m \in 0..n}

Missing == [exists |-> FALSE, content |-> <<>>]

File(content) == [exists |-> TRUE, content |-> content]

MainFiles == {Missing} \cup {File(c) : c \in SeqsUpTo(MainLines, MaxLines)}

UnitFiles == {Missing} \cup {File(c) : c \in SeqsUpTo(UnitLines, MaxLen)}

----------------------------------------------------------------------------
(* pandas: DataFrames with one column 'value' *)

NaN == [k |-> "nan", n |-> 0]

Num(n) == [k |-> "num", n |-> n]

Str(n) == [k |-> "str", n |-> n]

NoFrame == [none |-> TRUE, dtype |-> "object", rows |-> <<>>]

DataFrame(dtype, rows) == [none |-> FALSE, dtype |-> dtype, rows |-> rows]

Row(i, v) == [index |-> i, value |-> v]

EmptyAsNone == NoFrame

\* pd.DataFrame(columns=['value']): no rows, dtype object
EmptyFrame == DataFrame("object", <<>>)

\* read_csv skips blank lines (skip_blank_lines defaults to True)
NonBlank(lines) == SelectSeq(lines, LAMBDA l : l.k # "blank")

\* read_csv's type inference for the column
ColumnDtype(lines) ==
    IF \E i \in 1..Len(lines) : lines[i].k = "text" THEN "object"
    ELSE IF \E i \in 1..Len(lines) : lines[i].k \in {"float", "nan"} THEN "float64"
    ELSE "int64"

\* the cell read_csv stores for a line in a column of the given dtype: in
\* an object column every field that is no missing-value marker stays a string
Cell(l, dtype) ==
    IF l.k = "nan" THEN NaN
    ELSE IF dtype = "object" THEN Str(l.n)
    ELSE Num(l.n)

\* pd.read_csv(filename, header=None, names=['value']) of an existing file:
\* rows are numbered 0, 1, ... (RangeIndex) after blank lines are dropped
read_csv(lines) ==
    LET kept == NonBlank(lines)
        dtype == ColumnDtype(kept)
    IN  IF kept = <<>> THEN EmptyFrame
        ELSE DataFrame(dtype, [i \in 1..Len(kept) |-> Row(i - 1, Cell(kept[i], dtype))])

\* the other policy: a missing file loads as an empty dataset
load_data_or_empty(file) ==
    IF ~file.exists THEN EmptyFrame ELSE read_csv(file.content)

load_data_with_pandas(file) ==
    IF ~file.exists THEN NoFrame ELSE read_csv(file.content)

----------------------------------------------------------------------------
(* find_anomalies *)

\* one element of df['value'] > threshold; NaN compares False
ExceedsOrEqual(cell, T) == cell.k = "num" /\ cell.n >= T

Exceeds(cell, T) == cell.k = "num" /\ cell.n > T

\* comparing a str cell with the float threshold raises TypeError
Raises(df) == \E i \in 1..Len(df.rows) : df.rows[i].value.k = "str"

\* df[mask]: the selected rows, each with the index label it had in df
FilterReset(rows, T) ==
    LET sel == SelectSeq(rows, LAMBDA r : Exceeds(r.value, T))
    IN  [i \in 1..Len(sel) |-> Row(i - 1, sel[i].value)]

Filter(rows, T) == SelectSeq(rows, LAMBDA r : Exceeds(r.value, T))

\* a Python number as tolist() yields it: int from an int64 column, float
\* (or nan) from a float64 column
PyValue(cell, dtype) ==
    IF cell.k = "nan" THEN [k |-> "nan", n |-> 0]
    ELSE [k |-> IF dtype = "int64" THEN "int" ELSE "float", n |-> cell.n]

Reverse(s) == [i \in 1..Len(s) |-> s[Len(s) + 1 - i]]

tolistReversed(frame) ==
    Reverse([i \in 1..Len(frame.rows) |-> PyValue(frame.rows[i].value, frame.dtype)])

tolist(frame) ==
    [i \in 1..Len(frame.rows) |-> PyValue(frame.rows[i].value, frame.dtype)]

lenOfInput(df, frame) == Len(df.rows)

len(df, frame) == Len(frame.rows)

NoResult ==
    [raised |-> FALSE, anomalies_count |-> 0, detected_anomalies |-> <<>>,
     anomalies_df |-> NoFrame]

find_anomalies(df, T) ==
    IF Raises(df)
    THEN [NoResult EXCEPT !.raised = TRUE]
    ELSE LET anomalies_df == DataFrame(df.dtype, Filter(df.rows, T))
         IN  [raised |-> FALSE,
              anomalies_count |-> len(df, anomalies_df),
              detected_anomalies |-> tolist(anomalies_df),
              anomalies_df |-> anomalies_df]

----------------------------------------------------------------------------
(* generate_text_report *)

ReportLine(tag, n, fmt) == [tag |-> tag, n |-> n, fmt |-> fmt]

\* a report that carries the time of generation in its title line too
report_text_dated(T, anomaly_count, detected_anomalies, time) ==
    << ReportLine("title", time, "time"),
       ReportLine("timestamp", time, "time"),
       ReportLine("source", 0, INPUT_FILENAME),
       ReportLine("threshold", T, "float"),
       ReportLine("separator", 0, "-"),
       ReportLine("total", anomaly_count, "int") >>
    \o (IF detected_anomalies # <<>>
        THEN <<ReportLine("list_header", 0, "-")>>
             \o [i \in 1..Len(detected_anomalies) |->
                    ReportLine("value", detected_anomalies[i].n, detected_anomalies[i].k)]
        ELSE <<ReportLine("none", 0, "-")>>)

\* the text the f.write calls produce, line by line; fmt is how the
\* f-string renders the number (150 as int, 150.0 as float, nan)
report_text(T, anomaly_count, detected_anomalies, time) ==
    << ReportLine("title", 0, "-"),
       ReportLine("timestamp", time, "time"),
       ReportLine("source", 0, INPUT_FILENAME),
       ReportLine("threshold", T, "float"),
       ReportLine("separator", 0, "-"),
       ReportLine("total", anomaly_count, "int") >>
    \o (IF detected_anomalies # <<>>
        THEN <<ReportLine("list_header", 0, "-")>>
             \o [i \in 1..Len(detected_anomalies) |->
                    ReportLine("value", detected_anomalies[i].n, detected_anomalies[i].k)]
        ELSE <<ReportLine("none", 0, "-")>>)

\* open(report_filename, 'w'): creates the file or truncates it
open_a(file) == [exists |-> TRUE, content |-> file.content]

open_w(file) == [exists |-> TRUE, content |-> <<>>]

\* f.write: the text goes after what the file holds
write(file, text) == [file EXCEPT !.content = file.content \o text]

----------------------------------------------------------------------------
(* generate_anomaly_graph *)

Points(frame) == [i \in 1..Len(frame.rows) |-> [x |-> frame.rows[i].index, y |-> frame.rows[i].value]]

NoImage == [exists |-> FALSE, line |-> <<>>, markers |-> <<>>]

\* ax.plot(full_df.index, full_df['value']); ax.scatter(anomalies_df.index,
\* anomalies_df['value']); plt.savefig
render(full_df, anomalies_df) ==
    [exists |-> TRUE, line |-> Points(full_df), markers |-> Points(anomalies_df)]

----------------------------------------------------------------------------
(* The process *)

NoLast == [valid |-> FALSE, input |-> Missing, count |-> 0, detected |-> <<>>, body |-> <<>>]

StaleReport ==
    File(report_text(THRESHOLD, 2, <<[k |-> "int", n |-> 150], [k |-> "int", n |-> 200]>>, 0))

StaleImage == [exists |-> TRUE, line |-> <<[x |-> 0, y |-> Num(30)]>>, markers |-> <<>>]

Fresh ==
    /\ data_df = NoFrame
    /\ result = NoResult
    /\ current_time = 0
    /\ stderr = {}
    /\ stages = <<>>

History0 ==
    /\ last = NoLast
    /\ repeat = FALSE
    /\ agree = FALSE

\* runs of main, one after another, on a disk that changes between them
Init ==
    /\ inputFile \in MainFiles
    /\ reportFile \in {Missing, StaleReport}
    /\ imageFile \in {NoImage, StaleImage}
    /\ now = 0
    /\ threshold = THRESHOLD
    /\ pc = "idle"
    /\ Fresh
    /\ History0

\* one call of each function in main's order, with any threshold
InitUnit ==
    /\ inputFile \in UnitFiles
    /\ reportFile = Missing
    /\ imageFile = NoImage
    /\ now = 0
    /\ threshold \in Thresholds
    /\ pc = "start"
    /\ Fresh
    /\ History0

Disk == <<inputFile, reportFile, imageFile>>
History == <<last, repeat, agree>>

\* python sensor_data_analyzer.py
StartRun ==
    /\ pc = "idle"
    /\ pc' = "start"
    /\ UNCHANGED <<Disk, now, threshold, data_df, result, current_time, stderr, stages, History>>

\* main: data_df = load_data_with_pandas(INPUT_FILENAME); if data_df is None: return
Load ==
    /\ pc = "start"
    /\ LET df == load_data_with_pandas(inputFile)
       IN  /\ data_df' = df
           /\ pc' = IF df.none THEN "stopped" ELSE "loaded"
           /\ stderr' = IF df.none THEN stderr \cup {"Error: not found"} ELSE stderr
    /\ stages' = Append(stages, "load")
    /\ UNCHANGED <<Disk, now, threshold, result, current_time, History>>

\* main: find_anomalies(data_df, THRESHOLD); a TypeError is not caught
Analyze ==
    /\ pc = "loaded"
    /\ LET r == find_anomalies(data_df, threshold)
       IN  /\ result' = r
           /\ pc' = IF r.raised THEN "crashed" ELSE "analyzed"
           /\ stages' = IF r.raised THEN stages ELSE Append(stages, "analyze")
    /\ UNCHANGED <<Disk, now, threshold, data_df, current_time, stderr, History>>

\* generate_text_report: current_time = datetime.now()...; open(report_filename, 'w')
ReportOpen ==
    /\ pc = "analyzed"
    /\ current_time' = now
    /\ reportFile' = open_w(reportFile)
    /\ pc' = "writing"
    /\ UNCHANGED <<inputFile, imageFile, now, threshold, data_df, result, stderr, stages, History>>

SansTimestamp(text) == SelectSeq(text, LAMBDA l : l.tag # "timestamp")

\* generate_text_report: the f.write calls and the close that ends the with block
ReportWrite ==
    /\ pc = "writing"
    /\ LET body == report_text(threshold, result.anomalies_count,
                               result.detected_anomalies, current_time)
           same == last.valid /\ last.input = inputFile
       IN  /\ reportFile' = write(reportFile, body)
           /\ last' = [valid |-> TRUE, input |-> inputFile,
                       count |-> result.anomalies_count,
                       detected |-> result.detected_anomalies, body |-> body]
           /\ repeat' = same
           /\ agree' = /\ same
                       /\ result.anomalies_count = last.count
                       /\ result.detected_anomalies = last.detected
                       /\ SansTimestamp(reportFile'.content) = SansTimestamp(last.body)
    /\ pc' = "reported"
    /\ stages' = Append(stages, "report")
    /\ UNCHANGED <<inputFile, imageFile, now, threshold, data_df, result, current_time, stderr>>

\* main calls generate_anomaly_graph after generate_text_report has returned
GraphEarly == pc \in {"analyzed", "reported"}

GraphReady == pc = "reported"

\* generate_anomaly_graph returns
Graph ==
    /\ GraphReady
    /\ imageFile' = render(data_df, result.anomalies_df)
    /\ pc' = "done"
    /\ stages' = Append(stages, "graph")
    /\ UNCHANGED <<inputFile, reportFile, now, threshold, data_df, result, current_time, stderr, History>>

\* generate_anomaly_graph raises (the style is not installed, the image
\* cannot be saved): main does not catch it
GraphFail ==
    /\ GraphReady
    /\ pc' = "graph_failed"
    /\ UNCHANGED <<Disk, now, threshold, data_df, result, current_time, stderr, stages, History>>

Terminal == {"stopped", "crashed", "done", "graph_failed"}

\* the process ends; nothing of it remains but the files
Exit ==
    /\ pc \in Terminal
    /\ pc' = "idle"
    /\ data_df' = NoFrame
    /\ result' = NoResult
    /\ current_time' = 0
    /\ stderr' = {}
    /\ stages' = <<>>
    /\ UNCHANGED <<Disk, now, threshold, History>>

\* between runs the operator replaces, empties or removes the input file
EditInput ==
    /\ pc = "idle"
    /\ inputFile' \in MainFiles \ {inputFile}
    /\ UNCHANGED <<reportFile, imageFile, now, threshold, pc, data_df, result,
                   current_time, stderr, stages, History>>

\* time passes
Tick ==
    /\ now < MaxClock
    /\ now' = now + 1
    /\ UNCHANGED <<Disk, threshold, pc, data_df, result, current_time, stderr, stages, History>>

Next ==
    \/ StartRun
    \/ Load
    \/ Analyze
    \/ ReportOpen
    \/ ReportWrite
    \/ Graph
    \/ GraphFail
    \/ Exit
    \/ EditInput
    \/ Tick

Spec == Init /\ [][Next]_vars

NextUnit ==
    \/ Load
    \/ Analyze
    \/ ReportOpen
    \/ ReportWrite
    \/ Graph
    \/ GraphFail

SpecUnit == InitUnit /\ [][NextUnit]_vars

----------------------------------------------------------------------------
(* Properties *)

Analyzed == pc \in {"analyzed", "writing", "reported", "done", "graph_failed"}

Reported == pc \in {"reported", "done", "graph_failed"}

\* the reading of data_df at position i was placed in the anomalous subset
Placed(i) ==
    \E j \in 1..Len(result.anomalies_df.rows) :
        result.anomalies_df.rows[j].index = data_df.rows[i].index

\* the anomalous subset holds rows of the dataset only
SubsetOfDataset ==
    \A j \in 1..Len(result.anomalies_df.rows) :
        \E i \in 1..Len(data_df.rows) : data_df.rows[i] = result.anomalies_df.rows[j]

Tagged(text, tag) == SelectSeq(text, LAMBDA l : l.tag = tag)

\* a report whose 'Total Anomalies Detected' number is the number of its
\* '- value' lines and that has the 'No anomalous values' line iff that is 0
Consistent(text) ==
    /\ Len(Tagged(text, "total")) = 1
    /\ Tagged(text, "total")[1].n = Len(Tagged(text, "value"))
    /\ Len(Tagged(text, "none")) = (IF Tagged(text, "total")[1].n = 0 THEN 1 ELSE 0)

\* C2: in a run that has written its report, the anomaly count equals the
\* length of the anomalous-value list, the number on the total line equals
\* the number of value lines, and the 'none detected' line is there iff the
\* count is 0.
C2_CountMatchesList ==
    Reported =>
        /\ result.anomalies_count = Len(result.detected_anomalies)
        /\ Consistent(reportFile.content)
        /\ Tagged(reportFile.content, "total")[1].n = result.anomalies_count

\* a report of a dataset of which some readings, not all, are anomalous
C2_Witness ==
    /\ pc = "reported"
    /\ result.anomalies_count = 1
    /\ Len(data_df.rows) = 2

RECURSIVE IsSubseq(_, _)
IsSubseq(s, t) ==
    IF s = <<>> THEN TRUE
    ELSE IF t = <<>> THEN FALSE
    ELSE IF Head(s) = Head(t) THEN IsSubseq(Tail(s), Tail(t))
    ELSE IsSubseq(s, Tail(t))

Numbers(s) == [i \in 1..Len(s) |-> s[i].n]

Scenario == File(<<Line("int", 10), Line("int", 150), Line("int", 30), Line("int", 200)>>)

\* C3: the values enumerated in the report are the detected values in
\* order, these are a subsequence of the numeric lines of the input file,
\* one per line above the threshold; input [10, 150, 30, 200] with
\* threshold 100 gives count 2 and values 150, 200 in that order.
C3_OrderPreserved ==
    Reported =>
        LET numeric == SelectSeq(inputFile.content, LAMBDA l : l.k \in {"int", "float"})
            listed == Numbers(Tagged(reportFile.content, "value"))
        IN  /\ listed = Numbers(result.detected_anomalies)
            /\ IsSubseq(listed, Numbers(numeric))
            /\ Len(listed) = Cardinality({i \in 1..Len(numeric) : numeric[i].n > threshold})
            /\ \A i \in 1..Len(listed) : listed[i] > threshold
            /\ (inputFile = Scenario /\ threshold = THRESHOLD) =>
                  /\ result.anomalies_count = 2
                  /\ listed = <<150, 200>>

\* the report of the scenario
C3_Witness ==
    /\ pc = "reported"
    /\ inputFile = Scenario
    /\ threshold = THRESHOLD
    /\ Numbers(Tagged(reportFile.content, "value")) = <<150, 200>>

HasText(file) == \E i \in 1..Len(file.content) : file.content[i].k = "text"

ThisReport ==
    report_text(threshold, result.anomalies_count, result.detected_anomalies, current_time)

\* C4: a run on an input file with a non-numeric line among its lines ends
\* with that line skipped and a warning printed, every numeric line loaded
\* as a reading, and its report written.
C4_NonNumericSkipped ==
    (pc \in Terminal /\ inputFile.exists /\ HasText(inputFile)) =>
        /\ pc \in {"done", "graph_failed"}
        /\ stderr # {}
        /\ [i \in 1..Len(data_df.rows) |-> data_df.rows[i].value.n] =
              Numbers(SelectSeq(inputFile.content, LAMBDA l : l.k \in {"int", "float"}))
        /\ reportFile = File(ThisReport)

\* C5: a run on a missing input file stops at the load: None is returned, a
\* diagnostic is printed, no other stage runs, and the report file and the
\* image file are what they were.
C5_MissingInputHalts ==
    [][ /\ (pc = "start" /\ pc' # "start" /\ ~inputFile.exists) =>
            /\ pc' = "stopped"
            /\ data_df'.none
            /\ "Error: not found" \in stderr'
            /\ stages' = <<"load">>
            /\ reportFile' = reportFile
            /\ imageFile' = imageFile
        /\ (pc = "stopped" /\ pc' # "stopped") =>
            /\ pc' = "idle"
            /\ reportFile' = reportFile
            /\ imageFile' = imageFile ]_vars

\* a stopped run with the report and the image of earlier days still there
C5_Witness ==
    /\ pc = "stopped"
    /\ ~inputFile.exists
    /\ reportFile = StaleReport
    /\ imageFile = StaleImage

\* C6: a run on an existing, empty input file loads an empty dataset, finds
\* 0 anomalies and an empty list, and writes a report with total 0 and the
\* 'none detected' line.
C6_EmptyInput ==
    (pc \notin {"idle", "start"} /\ inputFile.exists /\ NonBlank(inputFile.content) = <<>>) =>
        /\ pc \notin {"stopped", "crashed"}
        /\ ~data_df.none
        /\ data_df.rows = <<>>
        /\ Analyzed => (result.anomalies_count = 0 /\ result.detected_anomalies = <<>>)
        /\ Reported =>
              /\ Tagged(reportFile.content, "total") = <<ReportLine("total", 0, "int")>>
              /\ Len(Tagged(reportFile.content, "none")) = 1
              /\ Tagged(reportFile.content, "value") = <<>>

\* a completed run on an empty file
C6_Witness ==
    /\ pc = "done"
    /\ inputFile = File(<<>>)
    /\ Len(Tagged(reportFile.content, "none")) = 1

\* C7: whenever the report file is not being written, it holds exactly the
\* report of the latest run that wrote it (the file it was before any run
\* wrote it, if none did).
C7_Overwritten ==
    pc # "writing" =>
        IF last.valid THEN reportFile = File(last.body)
        ELSE reportFile \in {Missing, StaleReport}

\* a report of no anomalies written over one that listed some, which the
\* image of that earlier run still shows
C7_Witness ==
    /\ pc = "reported"
    /\ result.anomalies_count = 0
    /\ imageFile.markers # <<>>
    /\ reportFile = File(ThisReport)

\* C8: a run that writes a report on the input the previous writing run had
\* gives the same count, the same values in the same order and the same
\* report text but for the timestamp line; and the dataset main holds stays
\* what the loader returned.
C8_Idempotent ==
    /\ repeat => agree
    /\ pc \notin {"idle", "start"} => data_df = load_data_with_pandas(inputFile)

\* a second run on the same input, with anomalies
C8_Witness ==
    /\ pc = "reported"
    /\ repeat
    /\ agree
    /\ result.anomalies_count > 0
    /\ current_time > 0

\* C9: every anomalous row keeps the index it has in the dataset, and every
\* marker of the image is a point of its line.
C9_OriginalIndex ==
    /\ Analyzed =>
          \A j \in 1..Len(result.anomalies_df.rows) :
              LET r == result.anomalies_df.rows[j]
              IN  /\ r.index + 1 \in 1..Len(data_df.rows)
                  /\ data_df.rows[r.index + 1] = r
    /\ imageFile.exists =>
          \A j \in 1..Len(imageFile.markers) :
              \E i \in 1..Len(imageFile.line) : imageFile.line[i] = imageFile.markers[j]

\* an image whose first marker is not at index 0
C9_Witness ==
    /\ pc = "done"
    /\ imageFile.markers # <<>>
    /\ imageFile.markers[1].x > 0
    /\ Len(imageFile.markers) > 1

IsPrefix(s, t) == Len(s) <= Len(t) /\ \A i \in 1..Len(s) : s[i] = t[i]

\* C10: the stages of a run complete in the order load, analyze, report,
\* graph; the report is written only by a run that has loaded and analyzed;
\* when the graph stage ends, in success or failure, the complete report of
\* this run is on disk.
C10_StageOrder ==
    /\ IsPrefix(stages, <<"load", "analyze", "report", "graph">>)
    /\ pc = "writing" => (stages = <<"load", "analyze">> /\ ~data_df.none)
    /\ Reported => (reportFile = File(ThisReport) /\ IsPrefix(<<"load", "analyze", "report">>, stages))
    /\ pc = "done" => stages = <<"load", "analyze", "report", "graph">>

\* a failed graph stage after a report that lists anomalies
C10_Witness ==
    /\ pc = "graph_failed"
    /\ result.anomalies_count > 0
    /\ reportFile = File(ThisReport)
    /\ imageFile = NoImage

====
